---- MODULE Spec2Model ----
(***************************************************************************)
(* A model of geolocalization/queries.py: the two-stage query clients      *)
(* (search_by_distance, return_all_national_indicators), the search-key    *)
(* parser and the two reshaping utilities (parse_inner_lists, merge_keys). *)
(*                                                                         *)
(* Python strings whose characters matter (search keys, distance_type) are *)
(* sequences of one-character strings, so that lower(), replace() and      *)
(* split() are computed character by character.  Python dicts whose        *)
(* iteration order matters are sequences of [k, v] pairs with unique keys; *)
(* dicts used as records are functions from field names to values.         *)
(***************************************************************************)
EXTENDS Integers, Sequences, FiniteSets, TLC

VARIABLES pc, args, sent, recv, log, hits, i, j, info, results, heap, ret

vars == <<pc, args, sent, recv, log, hits, i, j, info, results, heap, ret>>

(***************************************************************************)
(* Bounds of the model.                                                    *)
(***************************************************************************)
MaxPieces == 7
MaxTypeLen == 2
MaxHits == 3
MaxTagHits == 2
MaxNested == 2
MaxCols == 2
MaxObjs == 2
MaxList == 2

(***************************************************************************)
(* Generic helpers.                                                        *)
(***************************************************************************)
SeqsUpTo(S, n) == UNION {[1..m -> S] : m \in 0..n}

Range(s) == {s[n] : n \in DOMAIN s}

RECURSIVE Flatten(_)
Flatten(ss) == IF ss = <<>> THEN <<>> ELSE Head(ss) \o Flatten(Tail(ss))

None == [kind |-> "none"]
Return(v) == [kind |-> "return", val |-> v]
Raise(e) == [kind |-> "raise", exc |-> e]

(***************************************************************************)
(* dict.update / d[k] = v on a dict used as a record.                      *)
(***************************************************************************)
DictUpdate(d, e) ==
    [k \in (DOMAIN d) \cup (DOMAIN e) |-> IF k \in DOMAIN e THEN e[k] ELSE d[k]]

DictSet(d, k, v) == [f \in (DOMAIN d) \cup {k} |-> IF f = k THEN v ELSE d[f]]

(***************************************************************************)
(* An insertion-ordered dict: a sequence of [k, v] pairs, keys unique.     *)
(* Assigning to a present key keeps its position.                          *)
(***************************************************************************)
ODKeys(od) == [n \in DOMAIN od |-> od[n].k]

ODHas(od, key) == \E n \in DOMAIN od : od[n].k = key

ODGet(od, key) == od[CHOOSE n \in DOMAIN od : od[n].k = key].v

ODSet(od, key, val) ==
    IF ODHas(od, key)
    THEN [n \in DOMAIN od |-> IF od[n].k = key THEN [k |-> key, v |-> val] ELSE od[n]]
    ELSE Append(od, [k |-> key, v |-> val])

(***************************************************************************)
(* str.lower, str.replace and str.split(sep) on character sequences.       *)
(***************************************************************************)
LowerChar(c) ==
    CASE c = "K" -> "k"
      [] c = "M" -> "m"
      [] c = "I" -> "i"
      [] c = "L" -> "l"
      [] c = "E" -> "e"
      [] c = "S" -> "s"
      [] OTHER -> c

StrLower(s) == [n \in DOMAIN s |-> LowerChar(s[n])]

StrReplaceNone(s, old, new) == s

RECURSIVE StrReplace(_, _, _)
StrReplace(s, old, new) ==
    IF Len(s) < Len(old) THEN s
    ELSE IF SubSeq(s, 1, Len(old)) = old
         THEN new \o StrReplace(SubSeq(s, Len(old) + 1, Len(s)), old, new)
         ELSE <<Head(s)>> \o StrReplace(Tail(s), old, new)

RECURSIVE StrSplit(_, _)
StrSplit(s, sep) ==
    IF \A n \in DOMAIN s : s[n] # sep THEN <<s>>
    ELSE LET p == CHOOSE n \in DOMAIN s : s[n] = sep /\ \A m \in 1..(n - 1) : s[m] # sep
         IN  <<SubSeq(s, 1, p - 1)>> \o StrSplit(SubSeq(s, p + 1, Len(s)), sep)

(***************************************************************************)
(* _parse_search_key_info.                                                 *)
(***************************************************************************)
AnnSpacePct == <<"a", "n", "n", " ", "%">>
AnnPct == <<"a", "n", "n", "%">>

Tokens(search_key) == StrSplit(StrReplace(search_key, AnnSpacePct, AnnPct), " ")

\* info[-n]
FromEnd(s, n) == s[Len(s) - n + 1]

ParsedDataShifted(tokens) ==
    [source_name |-> FromEnd(tokens, 3),
     indicator_name |-> FromEnd(tokens, 2),
     uom |-> FromEnd(tokens, 1)]

ParsedData(tokens) ==
    [source_name |-> FromEnd(tokens, 4),
     indicator_name |-> FromEnd(tokens, 3),
     uom |-> FromEnd(tokens, 2)]

ParseSearchKeyInfoLenient(search_key) ==
    Return(ParsedData(<<<<>>, <<>>, <<>>, <<>>>> \o Tokens(search_key)))

\* info[-4] is evaluated first and raises IndexError on a list shorter than 4.
ParseSearchKeyInfo(search_key) ==
    LET tokens == Tokens(search_key)
    IN  IF Len(tokens) < 4 THEN Raise("IndexError") ELSE Return(ParsedData(tokens))

(***************************************************************************)
(* Specification of the parser alone: the key is any concatenation of at   *)
(* most MaxPieces pieces, or the example key of the documentation.         *)
(***************************************************************************)
Pieces == {<<" ">>, <<"x">>, <<"a", "n", "n">>, AnnSpacePct}

ExampleKey ==
    <<"A", " ", "B", " ", "a", "n", "n", " ", "%", " ",
      "g", "r", "o", "w", "t", "h", " ", "i", "n", "d", "e", "x", " ",
      "p", "c", "t", " ", "X">>

ParseKeys == {Flatten(ps) : ps \in SeqsUpTo(Pieces, MaxPieces)} \cup {ExampleKey}

InitParse ==
    /\ pc = "start"
    /\ args \in [search_key : ParseKeys]
    /\ sent = <<>> /\ recv = <<>> /\ log = <<>> /\ hits = <<>> /\ i = 0 /\ j = 0
    /\ info = <<>> /\ results = <<>> /\ heap = <<>>
    /\ ret = None

CallParseSearchKeyInfo ==
    /\ pc = "start"
    /\ info' = Tokens(args.search_key)
    /\ ret' = ParseSearchKeyInfo(args.search_key)
    /\ pc' = "done"
    /\ UNCHANGED <<args, sent, recv, log, hits, i, j, results, heap>>

NextParse == CallParseSearchKeyInfo

SpecParse == InitParse /\ [][NextParse]_vars

(***************************************************************************)
(* _retrieve_query_settings: ds is "" when it is False.                    *)
(***************************************************************************)
Url == "http://ec2-13-229-144-6.ap-southeast-1.compute.amazonaws.com"
Port == "5000"

QueryPath(simple, ds) ==
    IF simple /\ ds = "" THEN "ui_data_simple_query"
    ELSE IF ~simple /\ ds = "" THEN "ui_geosearch_query"
    ELSE <<"datascience/", ds>>

RetrieveQuerySettings(simple, add_method, ds) ==
    LET settings == [url |-> Url, path |-> QueryPath(simple, ds), port |-> Port]
    IN  IF add_method THEN DictSet(settings, "method", "POST") ELSE settings

\* requests.post(f'{url}:{port}/{path}', json=data)
Post(settings, data) ==
    [url |-> settings.url, port |-> settings.port, path |-> settings.path, json |-> data]

(***************************************************************************)
(* What the remote service may answer.  A request either fails in          *)
(* transport (requests.post raises) or is answered by a body that either   *)
(* decodes (request.json() returns) or does not (request.json() raises).   *)
(***************************************************************************)
S_km == <<"k", "m">>
S_miles == <<"m", "i", "l", "e", "s">>

Key1 == <<"s", " ", "i", " ", "u", " ", "t">>
Key2 == <<"a", "n", "n", " ", "%", " ", "j", " ", "v", " ", "t">>
KeyShort == <<"a", " ", "b">>
HitKeys == {Key1, Key2, KeyShort}

Payload1 == [responses |-> <<[actual_value |-> 1, date |-> "2020"]>>]
Payload2 == [responses |-> <<[actual_value |-> 2, date |-> "2021"],
                             [actual_value |-> 3, date |-> "2022"]>>]
ErrBody == [error |-> "unknown search_key"]

RawContents == {"<html>502</html>"}

Stage2Replies ==
    {[kind |-> "transport_error"]} \cup [kind : {"undecodable"}, content : RawContents]
        \cup [kind : {"json"}, body : {Payload1, Payload2, ErrBody}]

Folders == {"Any", "Retail"}

\* stage-1 bodies of the geosearch: {responses: {<folder>: [{search_key}, ...]}}
\* for one folder of Folders.
Stage1Replies ==
    {[kind |-> "transport_error"]} \cup [kind : {"undecodable"}, content : RawContents]
        \cup [kind : {"json"}, folder : Folders, keys : SeqsUpTo(HitKeys, MaxHits)]

(***************************************************************************)
(* search_by_distance / _search_by_distance.                               *)
(***************************************************************************)
DistTypes ==
    SeqsUpTo({"k", "K", "m", "M"}, MaxTypeLen)
        \cup {S_miles, <<"M", "I", "L", "E", "S">>, <<"M", "i", "l", "e", "s">>,
              <<"m", "i", "l", "e">>, <<"k", "m", "s">>}

DistanceTypeInvalidNoLower(distance_type) == distance_type \notin {S_km, S_miles}

\* distance_type.lower() not in ['km', 'miles']
DistanceTypeInvalid(distance_type) == StrLower(distance_type) \notin {S_km, S_miles}

\* the request body of stage 1
DistanceData(a) ==
    LET data == [location_name |-> a.location,
                 distance |-> a.distance,
                 distance_type |-> StrLower(a.distance_type),
                 folder_name |-> a.folder_name,
                 include_indicators_with_assets |-> a.include_indicators_with_assets]
    IN  IF a.indicator # "" THEN DictSet(data, "indicator_name_id", a.indicator) ELSE data

\* the request body of _match_key_to_actual
MatchKeyData(sk) == [search_key |-> sk, sudo |-> FALSE]

InitDist ==
    /\ pc = "start"
    /\ args \in [location : {"Sydney"}, distance : {100}, distance_type : DistTypes,
                 include_indicators_with_assets : {TRUE}, folder_name : {"Any"},
                 indicator : {"", "gdp"}]
    /\ sent = <<>> /\ recv = <<>> /\ log = <<>> /\ hits = <<>> /\ i = 0 /\ j = 0
    /\ info = <<>> /\ results = <<>> /\ heap = <<>>
    /\ ret = None

\* lines 44-49 and 333-346: validate, then send the stage-1 request.
SearchByDistance ==
    /\ pc = "start"
    /\ IF DistanceTypeInvalid(args.distance_type)
       THEN /\ ret' = Raise("Exception")
            /\ pc' = "done"
            /\ UNCHANGED sent
       ELSE /\ sent' = Append(sent, Post(RetrieveQuerySettings(FALSE, FALSE, ""),
                                         DistanceData(args)))
            /\ pc' = "stage1"
            /\ UNCHANGED ret
    /\ UNCHANGED <<args, recv, log, hits, i, j, info, results, heap>>

ExceptBranchReturnsEmpty == Return(<<>>)

\* lines 350-353: after the two prints, `return output` reads a local that the
\* failed assignment of line 349 never bound.
ExceptBranch == Raise("UnboundLocalError")

\* lines 346-355: the answer to the stage-1 request.
Stage1Response ==
    /\ pc = "stage1"
    /\ \E reply \in Stage1Replies :
        /\ recv' = Append(recv, reply)
        /\ CASE reply.kind = "transport_error" ->
                  /\ ret' = Raise("ConnectionError")
                  /\ pc' = "done"
                  /\ UNCHANGED <<log, hits, i>>
             [] reply.kind = "undecodable" ->
                  /\ log' = log \o <<"Request failed, see message error: ", reply.content>>
                  /\ ret' = ExceptBranch
                  /\ pc' = "done"
                  /\ UNCHANGED <<hits, i>>
             [] reply.kind = "json" /\ reply.folder # args.folder_name ->
                  /\ ret' = Raise("KeyError")
                  /\ pc' = "done"
                  /\ UNCHANGED <<log, hits, i>>
             [] OTHER ->
                  /\ hits' = reply.keys
                  /\ i' = 1
                  /\ pc' = "loop"
                  /\ UNCHANGED <<log, ret>>
    /\ UNCHANGED <<args, sent, j, info, results, heap>>

\* the key under which a resolved hit is stored
ResultKeyFirst(keys, n) == keys[1]

ResultKey(keys, n) == keys[n]

\* lines 355-362: one iteration of the loop over the hits.
ProcessHit ==
    /\ pc = "loop"
    /\ i <= Len(hits)
    /\ LET sk == hits[i]
           sk_parsed == ParseSearchKeyInfo(sk)
           settings == RetrieveQuerySettings(TRUE, FALSE, "")
       IN  IF sk_parsed.kind = "raise"
           THEN /\ ret' = sk_parsed
                /\ pc' = "done"
                /\ UNCHANGED <<sent, recv, i, results>>
           ELSE /\ sent' = Append(sent, Post(settings, MatchKeyData(sk)))
                /\ \E reply \in Stage2Replies :
                    /\ recv' = Append(recv, reply)
                    /\ CASE reply.kind = "transport_error" ->
                              /\ ret' = Raise("ConnectionError")
                              /\ pc' = "done"
                              /\ UNCHANGED <<i, results>>
                         [] reply.kind = "undecodable" ->
                              /\ ret' = Raise("JSONDecodeError")
                              /\ pc' = "done"
                              /\ UNCHANGED <<i, results>>
                         [] reply.kind = "json" /\ "responses" \notin DOMAIN reply.body ->
                              /\ results' = ODSet(results, ResultKey(hits, i), sk_parsed.val)
                              /\ ret' = Raise("KeyError")
                              /\ pc' = "done"
                              /\ UNCHANGED i
                         [] OTHER ->
                              /\ results' = ODSet(results, ResultKey(hits, i),
                                                  DictSet(sk_parsed.val, "responses",
                                                          reply.body.responses))
                              /\ i' = i + 1
                              /\ UNCHANGED <<pc, ret>>
    /\ UNCHANGED <<args, log, hits, j, info, heap>>

\* line 364
ReturnResults ==
    /\ pc = "loop"
    /\ i > Len(hits)
    /\ ret' = Return(results)
    /\ pc' = "done"
    /\ UNCHANGED <<args, sent, recv, log, hits, i, j, info, results, heap>>

NextDist == SearchByDistance \/ Stage1Response \/ ProcessHit \/ ReturnResults

SpecDist == InitDist /\ [][NextDist]_vars

(***************************************************************************)
(* parse_inner_lists.  to_keep_columns is the string 'all' (KeepAll) or a  *)
(* list of column names (KeepList).                                        *)
(***************************************************************************)
KeepAll == [all |-> TRUE, cols |-> <<>>]
KeepList(cols) == [all |-> FALSE, cols |-> cols]

\* lines 159-161
ToKeepColumns(json_data, target_nested_column, to_keep_columns) ==
    IF to_keep_columns.all
    THEN (DOMAIN json_data) \ {target_nested_column}
    ELSE Range(to_keep_columns.cols)

FlatRecordNestedWins(response, json_data, cols, keep) ==
    DictUpdate([c \in keep |-> json_data[c]], [c \in Range(cols) |-> response[c]])

\* lines 165-175: r is filled from the nested entry first, then from the record.
FlatRecord(response, json_data, cols, keep) ==
    DictUpdate([c \in Range(cols) |-> response[c]], [c \in keep |-> json_data[c]])

\* a missing column raises KeyError at line 163, 170 or 175
ParseInnerLists(json_data, cols_from_nested, target_nested_column, to_keep_columns) ==
    LET keep == ToKeepColumns(json_data, target_nested_column, to_keep_columns)
    IN  IF target_nested_column \notin DOMAIN json_data THEN Raise("KeyError")
        ELSE LET nested == json_data[target_nested_column]
             IN  IF \E n \in DOMAIN nested :
                        \/ ~(Range(cols_from_nested) \subseteq DOMAIN nested[n])
                        \/ ~(keep \subseteq DOMAIN json_data)
                 THEN Raise("KeyError")
                 ELSE Return([n \in DOMAIN nested |->
                                 FlatRecord(nested[n], json_data, cols_from_nested, keep)])

Entries ==
    {[actual_value |-> 1, date |-> "2020"], [actual_value |-> 2, date |-> "2021"],
     [actual_value |-> 3], [actual_value |-> 4, responses |-> <<>>]}

OuterValue(f) == IF f = "date" THEN "outer-date" ELSE "Retail"

OuterRecords == {[f \in D |-> OuterValue(f)] : D \in SUBSET {"date", "folder_name"}}

JsonDatas ==
    OuterRecords
        \cup {DictSet(o, "responses", nested) :
                 o \in OuterRecords, nested \in SeqsUpTo(Entries, MaxNested)}

InitFlat ==
    /\ pc = "start"
    /\ args \in [json_data : JsonDatas,
                 cols_from_nested : SeqsUpTo({"actual_value", "date", "responses"}, MaxCols),
                 target_nested_column : {"responses"},
                 to_keep_columns :
                     {KeepAll} \cup {KeepList(cs) :
                         cs \in SeqsUpTo({"date", "responses"}, MaxCols)}]
    /\ sent = <<>> /\ recv = <<>> /\ log = <<>> /\ hits = <<>> /\ i = 0 /\ j = 0
    /\ info = <<>> /\ results = <<>> /\ heap = <<>>
    /\ ret = None

CallParseInnerLists ==
    /\ pc = "start"
    /\ ret' = ParseInnerLists(args.json_data, args.cols_from_nested,
                              args.target_nested_column, args.to_keep_columns)
    /\ pc' = "done"
    /\ UNCHANGED <<args, sent, recv, log, hits, i, j, info, results, heap>>

NextFlat == CallParseInnerLists

SpecFlat == InitFlat /\ [][NextFlat]_vars

(***************************************************************************)
(* merge_keys.  The records are objects: heap maps an object to its        *)
(* fields, and the lists of the dictionary hold objects, so that           *)
(* dict_.update changes the caller's record and the returned list holds    *)
(* the same objects.                                                       *)
(***************************************************************************)
Deref(h, ids) == [n \in DOMAIN ids |-> h[ids[n]]]

\* lines 199-201 for the list of one key
RECURSIVE MergeList(_, _, _, _)
MergeList(h, ids, key_name, key) ==
    IF ids = <<>> THEN h
    ELSE MergeList([h EXCEPT ![Head(ids)] = DictSet(@, key_name, key)],
                   Tail(ids), key_name, key)

\* lines 196-203
RECURSIVE MergeKeys(_, _, _)
MergeKeys(h, dictionary, key_name) ==
    IF dictionary = <<>> THEN [heap |-> h, results |-> <<>>]
    ELSE LET first == Head(dictionary)
             rest == MergeKeys(MergeList(h, first.v, key_name, first.k),
                               Tail(dictionary), key_name)
         IN  [heap |-> rest.heap, results |-> first.v \o rest.results]

MergeRecords == {[x |-> "1"], [x |-> "2"], [x |-> "1", tag |-> "Z"]}

OuterKeys == {"A", "B"}

\* the insertion-ordered dicts over the keys ks whose values are drawn from vs
InjectiveSeqs(ks) ==
    {s \in SeqsUpTo(ks, Cardinality(ks)) : \A m, n \in DOMAIN s : m # n => s[m] # s[n]}

OrderedDicts(ks, vs) ==
    UNION {{[n \in DOMAIN order |-> [k |-> order[n], v |-> vals[n]]] :
               vals \in [DOMAIN order -> vs]} : order \in InjectiveSeqs(ks)}

InitMerge ==
    /\ pc = "start"
    /\ heap \in [1..MaxObjs -> MergeRecords]
    /\ \E d \in OrderedDicts(OuterKeys, SeqsUpTo(1..MaxObjs, MaxList)),
          name \in {"tag", "x"} :
           args = [dictionary |-> d, key_name |-> name, heap |-> heap]
    /\ sent = <<>> /\ recv = <<>> /\ log = <<>> /\ hits = <<>> /\ i = 0 /\ j = 0
    /\ info = <<>> /\ results = <<>>
    /\ ret = None

CallMergeKeys ==
    /\ pc = "start"
    /\ LET m == MergeKeys(heap, args.dictionary, args.key_name)
       IN  /\ heap' = m.heap
           /\ ret' = Return(m.results)
    /\ pc' = "done"
    /\ UNCHANGED <<args, sent, recv, log, hits, i, j, info, results>>

NextMerge == CallMergeKeys

SpecMerge == InitMerge /\ [][NextMerge]_vars

(***************************************************************************)
(* return_all_national_indicators.  hits is the decoded stage-1 body: an   *)
(* insertion-ordered dict from tag to the list of the search keys of its   *)
(* hits; i is the position of the tag, j of the hit within the tag.        *)
(***************************************************************************)
Tags == {"Retail", "Office"}

NatStage1Replies ==
    {[kind |-> "transport_error"]}
        \cup [kind : {"undecodable"}, content : RawContents]
        \cup [kind : {"json"}, responses : OrderedDicts(Tags, SeqsUpTo(HitKeys, MaxTagHits))]

NationalData(a) ==
    [location_name |-> a.location, distance_type |-> "km", only_nationals |-> TRUE]

\* merge_keys on a dict whose lists hold records no other list holds
RECURSIVE Alloc(_, _)
Alloc(od, base) ==
    IF od = <<>> THEN <<>>
    ELSE <<[k |-> Head(od).k, v |-> [n \in DOMAIN Head(od).v |-> base + n]]>>
             \o Alloc(Tail(od), base + Len(Head(od).v))

MergeFresh(od, key_name) ==
    LET m == MergeKeys(Flatten([n \in DOMAIN od |-> od[n].v]), Alloc(od, 0), key_name)
    IN  Deref(m.heap, m.results)

InitNat ==
    /\ pc = "start"
    /\ args \in [location : {"Sydney"}, parse_json : BOOLEAN]
    /\ sent = <<>> /\ recv = <<>> /\ log = <<>> /\ hits = <<>> /\ i = 0 /\ j = 0
    /\ info = <<>> /\ results = <<>> /\ heap = <<>>
    /\ ret = None

\* lines 87-97
ReturnAllNationalIndicators ==
    /\ pc = "start"
    /\ sent' = Append(sent, Post(RetrieveQuerySettings(FALSE, FALSE, ""), NationalData(args)))
    /\ pc' = "stage1"
    /\ UNCHANGED <<args, recv, log, hits, i, j, info, results, heap, ret>>

\* lines 97-103: no try around request.json() here
NatStage1Response ==
    /\ pc = "stage1"
    /\ \E reply \in NatStage1Replies :
        /\ recv' = Append(recv, reply)
        /\ CASE reply.kind = "transport_error" ->
                  /\ ret' = Raise("ConnectionError")
                  /\ pc' = "done"
                  /\ UNCHANGED <<hits, i, j>>
             [] reply.kind = "undecodable" ->
                  /\ ret' = Raise("JSONDecodeError")
                  /\ pc' = "done"
                  /\ UNCHANGED <<hits, i, j>>
             [] OTHER ->
                  /\ hits' = reply.responses
                  /\ i' = 1
                  /\ j' = 1
                  /\ pc' = "tags"
                  /\ UNCHANGED ret
    /\ UNCHANGED <<args, sent, log, info, results, heap>>

NatResultKeyBySearchKey(tag, sk) == sk

\* lines 105 and 110: the entry of a hit is stored under its tag
NatResultKey(tag, sk) == tag

\* lines 104-111: one iteration of the inner loop
NatProcessHit ==
    /\ pc = "tags"
    /\ i <= Len(hits)
    /\ j <= Len(hits[i].v)
    /\ LET tag == hits[i].k
           sk == hits[i].v[j]
           sk_parsed == ParseSearchKeyInfo(sk)
           settings == RetrieveQuerySettings(TRUE, FALSE, "")
           cleared == ODSet(results, NatResultKey(tag, sk), [f \in {} |-> 0])
       IN  IF sk_parsed.kind = "raise"
           THEN /\ results' = cleared
                /\ ret' = sk_parsed
                /\ pc' = "done"
                /\ UNCHANGED <<sent, recv, j>>
           ELSE /\ sent' = Append(sent, Post(settings, MatchKeyData(sk)))
                /\ \E reply \in Stage2Replies :
                    /\ recv' = Append(recv, reply)
                    /\ CASE reply.kind = "transport_error" ->
                              /\ results' = cleared
                              /\ ret' = Raise("ConnectionError")
                              /\ pc' = "done"
                              /\ UNCHANGED j
                         [] reply.kind = "undecodable" ->
                              /\ results' = cleared
                              /\ ret' = Raise("JSONDecodeError")
                              /\ pc' = "done"
                              /\ UNCHANGED j
                         [] OTHER ->
                              /\ results' = ODSet(results, NatResultKey(tag, sk),
                                                  DictUpdate(sk_parsed.val, reply.body))
                              /\ j' = j + 1
                              /\ UNCHANGED <<pc, ret>>
    /\ UNCHANGED <<args, log, hits, i, info, heap>>

\* lines 113-118: after the hits of a tag
NatEndTag ==
    /\ pc = "tags"
    /\ i <= Len(hits)
    /\ j > Len(hits[i].v)
    /\ LET tag == hits[i].k
       IN  IF args.parse_json /\ ODHas(results, tag)
           THEN LET parsed == ParseInnerLists(ODGet(results, tag),
                                              <<"actual_value", "date">>, "responses", KeepAll)
                IN  IF parsed.kind = "raise"
                    THEN /\ ret' = parsed
                         /\ pc' = "done"
                         /\ UNCHANGED <<results, i, j>>
                    ELSE /\ results' = ODSet(results, tag, parsed.val)
                         /\ i' = i + 1
                         /\ j' = 1
                         /\ UNCHANGED <<pc, ret>>
           ELSE /\ i' = i + 1
                /\ j' = 1
                /\ UNCHANGED <<results, pc, ret>>
    /\ UNCHANGED <<args, sent, recv, log, hits, info, heap>>

\* lines 120-124
NatReturn ==
    /\ pc = "tags"
    /\ i > Len(hits)
    /\ ret' = Return(IF args.parse_json THEN MergeFresh(results, "folder_name") ELSE results)
    /\ pc' = "done"
    /\ UNCHANGED <<args, sent, recv, log, hits, i, j, info, results, heap>>

NextNat ==
    ReturnAllNationalIndicators \/ NatStage1Response \/ NatProcessHit \/ NatEndTag \/ NatReturn

SpecNat == InitNat /\ [][NextNat]_vars

(***************************************************************************)
(* Properties.                                                             *)
(***************************************************************************)
UpperChar(c) ==
    CASE c = "k" -> "K"
      [] c = "m" -> "M"
      [] c = "i" -> "I"
      [] c = "l" -> "L"
      [] c = "e" -> "E"
      [] c = "s" -> "S"
      [] OTHER -> c

SameIgnoringCase(s, w) ==
    /\ Len(s) = Len(w)
    /\ \A n \in DOMAIN s : s[n] = w[n] \/ s[n] = UpperChar(w[n])

AcceptedType(s) == SameIgnoringCase(s, S_km) \/ SameIgnoringCase(s, S_miles)

Raised(e) == ret.kind = "raise" /\ ret.exc = e

\* a stage-2 answer that decodes and carries the `responses` payload
Succeeded(reply) == reply.kind = "json" /\ "responses" \in DOMAIN reply.body

WellFormedKey(k) == Len(Tokens(k)) >= 4

\* stage 1 of search_by_distance decoded to a list of hits under the folder asked for
Stage1Decoded ==
    /\ Len(recv) >= 1
    /\ recv[1].kind = "json"
    /\ recv[1].folder = args.folder_name

\* C1: a distance_type that is not "km" or "miles" up to case makes
\* search_by_distance fail with the validation error while no request has been
\* sent; one that is never fails the validation.
C1_Validation ==
    /\ (pc # "start" /\ ~AcceptedType(args.distance_type))
          => (pc = "done" /\ Raised("Exception") /\ sent = <<>> /\ recv = <<>>)
    /\ AcceptedType(args.distance_type) => ~Raised("Exception")
    /\ (pc # "start" /\ AcceptedType(args.distance_type)) => Len(sent) >= 1

C1_Witness ==
    /\ pc = "done"
    /\ Raised("Exception")
    /\ args.distance_type = <<"k", "m", "s">>

\* what C2 concludes: one stage-2 request per hit after the stage-1 request, in hit
\* order, repeated keys included; the result is keyed by exactly the hits' keys and
\* a key's entry holds the payload answered for its last hit.
C2_Conclusion ==
    LET keys == recv[1].keys
    IN  /\ Len(sent) = Len(keys) + 1
        /\ sent[1].path = "ui_geosearch_query"
        /\ \A n \in DOMAIN keys :
              /\ sent[n + 1].path = "ui_data_simple_query"
              /\ sent[n + 1].json.search_key = keys[n]
        /\ ret.kind = "return"
        /\ Range(ODKeys(ret.val)) = Range(keys)
        /\ Len(ret.val) = Cardinality(Range(keys))
        /\ \A n \in DOMAIN keys :
              (\A m \in DOMAIN keys : m > n => keys[m] # keys[n])
                  => ODGet(ret.val, keys[n]).responses = recv[n + 1].body.responses

\* C2 as stated: when stage 1 decodes to hits h1..hn and every stage-2 call
\* succeeds, the finished operation has issued exactly n stage-2 requests in hit
\* order and returned the ResultSet keyed by the hits' keys, last hit winning.
C2_AsStated ==
    (/\ pc = "done"
     /\ Stage1Decoded
     /\ \A n \in 2..Len(recv) : Succeeded(recv[n]))
        => C2_Conclusion

\* C2 amended: the same, when moreover every hit's search key has at least 4
\* tokens after normalization.
C2_OneCallPerHit ==
    (/\ pc = "done"
     /\ Stage1Decoded
     /\ \A n \in DOMAIN recv[1].keys : WellFormedKey(recv[1].keys[n])
     /\ \A n \in 2..Len(recv) : Succeeded(recv[n]))
        => C2_Conclusion

C2_Witness ==
    /\ pc = "done"
    /\ ret.kind = "return"
    /\ Stage1Decoded
    /\ recv[1].keys = <<Key1, Key2, Key1>>
    /\ recv[2].body # recv[4].body

\* C3: when the stage-1 body does not decode, the raw response is logged, no
\* stage-2 request is sent and the operation ends without returning a ResultSet.
C3_Stage1Undecodable ==
    (Len(recv) >= 1 /\ recv[1].kind = "undecodable")
        => /\ pc = "done"
           /\ recv[1].content \in Range(log)
           /\ Len(sent) = 1
           /\ Len(recv) = 1
           /\ ret.kind = "raise"

C3_Witness ==
    /\ pc = "done"
    /\ Len(recv) = 1
    /\ recv[1].kind = "undecodable"
    /\ Len(log) = 2

RECURSIVE JoinWith(_, _)
JoinWith(ss, sep) ==
    IF Len(ss) = 1 THEN ss[1] ELSE ss[1] \o <<sep>> \o JoinWith(Tail(ss), sep)

Occurrences(s, pat) ==
    Cardinality({p \in 1..(Len(s) - Len(pat) + 1) : SubSeq(s, p, p + Len(pat) - 1) = pat})

\* C4: the tokens are those of the key with every "ann %" turned into "ann%",
\* split at each space; with at least 4 tokens the parser returns the 4th, 3rd
\* and 2nd token from the end as source_name, indicator_name and uom, and with
\* fewer it fails with IndexError.
C4_ParseKey ==
    pc = "done" =>
        LET n == Len(info)
            normalized == JoinWith(info, " ")
        IN  /\ \A t \in DOMAIN info : " " \notin Range(info[t])
            /\ Occurrences(normalized, AnnSpacePct) = 0
            /\ Len(normalized) = Len(args.search_key) - Occurrences(args.search_key, AnnSpacePct)
            /\ n >= 4 => /\ ret.kind = "return"
                         /\ DOMAIN ret.val = {"source_name", "indicator_name", "uom"}
                         /\ ret.val.source_name = info[n - 3]
                         /\ ret.val.indicator_name = info[n - 2]
                         /\ ret.val.uom = info[n - 1]
            /\ n < 4 => Raised("IndexError")

C4_Witness ==
    /\ pc = "done"
    /\ ret.kind = "return"
    /\ Occurrences(args.search_key, AnnSpacePct) >= 1
    /\ Len(info) >= 5
    /\ info[Len(info)] # info[Len(info) - 3]

ExampleTokens ==
    <<<<"A">>, <<"B">>, <<"a", "n", "n", "%">>, <<"g", "r", "o", "w", "t", "h">>,
      <<"i", "n", "d", "e", "x">>, <<"p", "c", "t">>, <<"X">>>>

\* C5 as stated: the example key normalizes to [A, B, ann%, growth, index, pct, X]
\* and yields source_name "index", indicator_name "pct", uom "X".
C5_AsStated ==
    (pc = "done" /\ args.search_key = ExampleKey)
        => /\ info = ExampleTokens
           /\ ret = Return([source_name |-> ExampleTokens[5],
                            indicator_name |-> ExampleTokens[6],
                            uom |-> ExampleTokens[7]])

\* C5 amended: the example key normalizes to [A, B, ann%, growth, index, pct, X]
\* and yields source_name "growth", indicator_name "index", uom "pct".
C5_Example ==
    (pc = "done" /\ args.search_key = ExampleKey)
        => /\ info = ExampleTokens
           /\ ret = Return([source_name |-> <<"g", "r", "o", "w", "t", "h">>,
                            indicator_name |-> <<"i", "n", "d", "e", "x">>,
                            uom |-> <<"p", "c", "t">>])

C5_Witness == pc = "done" /\ args.search_key = ExampleKey /\ ret.kind = "return"

\* the number of hits of the first t tags of a stage-1 body
RECURSIVE HitsUpTo(_, _)
HitsUpTo(resp, t) == IF t = 0 THEN 0 ELSE Len(resp[t].v) + HitsUpTo(resp, t - 1)

ColumnsPresent ==
    /\ args.target_nested_column \in DOMAIN args.json_data
    /\ \A n \in DOMAIN args.json_data[args.target_nested_column] :
          Range(args.cols_from_nested)
              \subseteq DOMAIN args.json_data[args.target_nested_column][n]
    /\ ~args.to_keep_columns.all
          => Range(args.to_keep_columns.cols) \subseteq DOMAIN args.json_data

KeptColumns ==
    IF args.to_keep_columns.all
    THEN (DOMAIN args.json_data) \ {args.target_nested_column}
    ELSE Range(args.to_keep_columns.cols)

\* C7 as stated: n entries give n flat records in list order; the i-th carries
\* every nested field with the i-th entry's value and every kept outer field with
\* the record's value; under 'all' the nested container is not an output field.
C7_AsStated ==
    (pc = "done" /\ ColumnsPresent) =>
        LET nested == args.json_data[args.target_nested_column]
        IN  /\ ret.kind = "return"
            /\ Len(ret.val) = Len(nested)
            /\ \A n \in DOMAIN nested :
                  /\ \A c \in Range(args.cols_from_nested) : ret.val[n][c] = nested[n][c]
                  /\ \A c \in KeptColumns : ret.val[n][c] = args.json_data[c]
                  /\ args.to_keep_columns.all
                        => args.target_nested_column \notin DOMAIN ret.val[n]

\* C7 amended: n entries give n flat records in list order; the i-th has exactly
\* the nested fields and the kept outer fields, every kept outer field with the
\* record's value and every nested field that is not also a kept outer field
\* with the i-th entry's value (so under 'all' the container's name is an output
\* field only when it is one of the nested fields).
C7_Unnest ==
    (pc = "done" /\ ColumnsPresent) =>
        LET nested == args.json_data[args.target_nested_column]
        IN  /\ ret.kind = "return"
            /\ Len(ret.val) = Len(nested)
            /\ \A n \in DOMAIN nested :
                  /\ DOMAIN ret.val[n] = Range(args.cols_from_nested) \cup KeptColumns
                  /\ \A c \in Range(args.cols_from_nested) \ KeptColumns :
                        ret.val[n][c] = nested[n][c]
                  /\ \A c \in KeptColumns : ret.val[n][c] = args.json_data[c]

C7_Witness ==
    /\ pc = "done"
    /\ ret.kind = "return"
    /\ Len(ret.val) = 2
    /\ args.to_keep_columns.all
    /\ "date" \in Range(args.cols_from_nested)
    /\ "actual_value" \in Range(args.cols_from_nested)
    /\ DOMAIN args.json_data = {"responses", "date", "folder_name"}
    /\ ret.val[1].actual_value # ret.val[2].actual_value

\* C8: merge_keys returns, in the order of the outer keys and then of the inner
\* lists, every record of every list with key_field_name set to the key of the
\* list it comes from (so as many records as the lists hold together).
C8_Rekey ==
    pc = "done" =>
        LET d == args.dictionary
            expected ==
                Flatten([n \in DOMAIN d |->
                            [m \in DOMAIN d[n].v |->
                                DictSet(args.heap[d[n].v[m]], args.key_name, d[n].k)]])
        IN  /\ ret.kind = "return"
            /\ Len(ret.val) = Len(expected)
            /\ Deref(heap, ret.val) = expected

\* C9: merge_keys leaves its argument as it was: after the call every record of
\* the input has the fields and values it had before.
C9_InputUnchanged == pc = "done" => heap = args.heap

\* C10: the stage-2 requests are those of a prefix of the hits, one each and in
\* hit order; a failed answer is the last exchange; no request is sent for a
\* key shorter than 4 tokens; when hit i fails the operation has ended with the
\* error, with requests for hits 1..i-1 and for hit i only if its stage-2 call
\* is what failed; and a ResultSet is returned only when no hit failed.
C10_FailFast ==
    (Stage1Decoded /\ pc \in {"loop", "done"}) =>
        LET m == Len(sent) - 1
            failed == Len(recv) >= 2 /\ ~Succeeded(recv[Len(recv)])
        IN  /\ m <= Len(hits)
            /\ Len(recv) = Len(sent)
            /\ \A n \in 1..m : sent[n + 1].json.search_key = hits[n]
            /\ \A n \in 1..m : WellFormedKey(hits[n])
            /\ \A n \in 2..(Len(recv) - 1) : Succeeded(recv[n])
            /\ failed => /\ pc = "done"
                         /\ ret.kind = "raise"
                         /\ i = m
                         /\ recv[Len(recv)].kind = "transport_error"
                               => ret.exc = "ConnectionError"
                         /\ recv[Len(recv)].kind = "undecodable"
                               => ret.exc = "JSONDecodeError"
            /\ (i <= Len(hits) /\ ~WellFormedKey(hits[i]) /\ pc = "done")
                  => (Raised("IndexError") /\ m = i - 1)
            /\ ret.kind = "raise" => (pc = "done" /\ (failed \/ ~WellFormedKey(hits[i])))
            /\ ret.kind = "return" => (m = Len(hits) /\ ~failed)

C10_Witness ==
    /\ pc = "done"
    /\ Raised("IndexError")
    /\ hits = <<Key1, KeyShort, Key2>>
    /\ Len(sent) = 2

====
